---- MODULE Spec2Model ----
(***************************************************************************)
(* Model of the PS_CRM back office: the transactional order / inventory   *)
(* ledger (internal/services/order_service.go, pricelist_service.go and   *)
(* their repositories) and the booking availability resolver (booking     *)
(* service and repository).                                                *)
(*                                                                         *)
(* The relational store is modelled as committed tables.  A transaction   *)
(* is the list of the statements it has executed; COMMIT applies the list *)
(* to the committed tables, ROLLBACK drops it.  Reads issued through the  *)
(* connection pool (r.db) see the committed tables only; statements       *)
(* issued through the transaction see the committed tables plus the       *)
(* transaction's own statements.                                           *)
(***************************************************************************)
EXTENDS Integers, Sequences, FiniteSets, Bags, TLC

VARIABLES
    db,        \* committed tables of the order/inventory subsystem
    seqs,      \* database id sequences (not transactional)
    result,    \* what the last service call returned
    ghost,     \* history: initial stock per item, units deducted / credited per order line
    bookings,  \* committed bookings table
    bseq,      \* id sequence of the bookings table
    now,       \* wall clock, in minutes
    bresult,   \* what the last booking service call returned
    procs      \* in-flight concurrent requests (concurrent specifications only)

vars == <<db, seqs, result, ghost, bookings, bseq, now, bresult, procs>>
orderVars == <<db, seqs, result, ghost>>
bookingVars == <<bookings, bseq, now, bresult>>

----
\* Bounds of the model.
MaxOrders == 1
MaxMovements == 3
MaxBookings == 2
MaxNow == 11

----
\* sql.NullInt64 / optional request fields
Null == [Valid |-> FALSE, V |-> 0]
Some(v) == [Valid |-> TRUE, V |-> v]

StatusPending == "pending"
StatusCompleted == "completed"
StatusCancelled == "cancelled"
StatusPreparing == "preparing"
StatusReady == "ready"
StatusServed == "served"
StatusPaid == "paid"
StatusRefunded == "refunded"

\* A switch that misses the refunded case.
isValidOrderStatusNoRefunded(status) ==
    status \in {StatusPending, StatusCompleted, StatusCancelled, StatusPreparing,
                StatusReady, StatusServed, StatusPaid}

isValidOrderStatus(status) ==
    status \in {StatusPending, StatusCompleted, StatusCancelled, StatusPreparing,
                StatusReady, StatusServed, StatusPaid, StatusRefunded}

----
\* ---------------------------------------------------------------------
\* The transactional store.
\* ---------------------------------------------------------------------

\* One statement executed inside a transaction.
Write(kind, id, val) == [kind |-> kind, id |-> id, val |-> val]

RemoveKey(f, k) == [x \in DOMAIN f \ {k} |-> f[x]]

\* The ledger keyed by item: a movement replaces the item's earlier ones.
ApplyWriteUpsert(d, wr) ==
    CASE wr.kind = "stock" ->
           \* SET current_stock = COALESCE(current_stock, 0) + $1
           [d EXCEPT !.items[wr.id].CurrentStock =
                Some((IF @.Valid THEN @.V ELSE 0) + wr.val)]
      [] wr.kind = "movement" ->
           [d EXCEPT !.movements =
                [m \in {x \in DOMAIN @ : x.PricelistItemID # wr.val.PricelistItemID} |-> @[m]]
                    (+) SetToBag({wr.val})]
      [] wr.kind = "order" ->
           [d EXCEPT !.orders = @ @@ (wr.id :> wr.val)]
      [] wr.kind = "orderItem" ->
           [d EXCEPT !.orderItems = @ @@ (wr.id :> wr.val)]
      [] wr.kind = "status" ->
           IF wr.id \in DOMAIN d.orders
           THEN [d EXCEPT !.orders[wr.id].Status = wr.val]
           ELSE d
      [] wr.kind = "deleteOrderItems" ->
           [d EXCEPT !.orderItems =
                [k \in {x \in DOMAIN @ : @[x].OrderID # wr.id} |-> @[k]]]
      [] wr.kind = "deleteOrder" ->
           [d EXCEPT !.orders = RemoveKey(@, wr.id)]

\* The effect of one statement on the tables.
ApplyWrite(d, wr) ==
    CASE wr.kind = "stock" ->
           \* SET current_stock = COALESCE(current_stock, 0) + $1
           [d EXCEPT !.items[wr.id].CurrentStock =
                Some((IF @.Valid THEN @.V ELSE 0) + wr.val)]
      [] wr.kind = "movement" ->
           \* rows of inventory_movements, up to their ids and timestamps
           [d EXCEPT !.movements = @ (+) SetToBag({wr.val})]
      [] wr.kind = "order" ->
           [d EXCEPT !.orders = @ @@ (wr.id :> wr.val)]
      [] wr.kind = "orderItem" ->
           [d EXCEPT !.orderItems = @ @@ (wr.id :> wr.val)]
      [] wr.kind = "status" ->
           IF wr.id \in DOMAIN d.orders
           THEN [d EXCEPT !.orders[wr.id].Status = wr.val]
           ELSE d
      [] wr.kind = "deleteOrderItems" ->
           [d EXCEPT !.orderItems =
                [k \in {x \in DOMAIN @ : @[x].OrderID # wr.id} |-> @[k]]]
      [] wr.kind = "deleteOrder" ->
           [d EXCEPT !.orders = RemoveKey(@, wr.id)]

RECURSIVE ApplyWrites(_, _)
ApplyWrites(d, w) ==
    IF w = <<>> THEN d ELSE ApplyWrites(ApplyWrite(d, Head(w)), Tail(w))

\* tx.Commit(): the statements of the transaction become visible.
Commit(d, w) == ApplyWrites(d, w)

RollbackKeepsWrites(d, w) == ApplyWrites(d, w)
\* defer tx.Rollback(): every statement of the transaction is dropped.
Rollback(d, w) == d

\* A statement that succeeds / a step that returns an error.  n counts the
\* statements sent to the store; the statement numbered failAt fails
\* (connection loss, constraint violation); failAt = 0 is a run without fault.
Exec(st, wr) == [st EXCEPT !.w = Append(@, wr), !.n = @ + 1]
Fail(st, e) == [st EXCEPT !.err = e]
Faulted(st, failAt) == st.n + 1 = failAt
FailStmt(st) == [st EXCEPT !.err = "ErrDatabaseError", !.n = @ + 1]

----
\* ---------------------------------------------------------------------
\* Repositories.
\* ---------------------------------------------------------------------

\* pricelistRepository.GetItemPriceAndStock: reads through r.db, i.e. the
\* committed row, also when the caller holds an open transaction.
GetItemPriceAndStock(d, itemID) ==
    IF itemID \notin DOMAIN d.items
    THEN [err |-> "ErrNotFound", price |-> 0, stock |-> Null, tracksStock |-> FALSE]
    ELSE [err |-> "none", price |-> d.items[itemID].Price,
          stock |-> d.items[itemID].CurrentStock,
          tracksStock |-> d.items[itemID].TracksStock]

\* pricelistRepository.UpdateStock(tx, itemID, quantityChange): relative
\* update of the row as the transaction sees it; no lower bound on the result.
UpdateStock(d, st, failAt, itemID, quantityChange) ==
    LET view == ApplyWrites(d, st.w).items IN
    IF Faulted(st, failAt) THEN FailStmt(st)
    ELSE IF itemID \notin DOMAIN view THEN [Fail(st, "ErrNotFound") EXCEPT !.n = @ + 1]
    ELSE IF ~view[itemID].TracksStock THEN FailStmt(st)
    ELSE Exec(st, Write("stock", itemID, quantityChange))

CreateMovementTwice(st, failAt, movement) ==
    Exec(Exec(st, Write("movement", 0, movement)), Write("movement", 0, movement))
CreateMovementSkip(st, failAt, movement) == [st EXCEPT !.n = @ + 1]
\* inventoryMovementRepository.CreateMovement(tx, movement)
CreateMovement(st, failAt, movement) ==
    IF Faulted(st, failAt) THEN FailStmt(st)
    ELSE Exec(st, Write("movement", 0, movement))

\* movement types named by the order service, declared in no source file at hand
MovementTypeSale == "sale"
MovementTypeReturnCancellation == "return_cancellation"
MovementTypeReturnDeletion == "return_deletion"

\* models.InventoryMovement; Reason is the reason text, kept as its parts
Movement(itemID, staffID, movementType, quantityChanged, reason) ==
    [PricelistItemID |-> itemID, StaffID |-> staffID, MovementType |-> movementType,
     QuantityChanged |-> quantityChanged, Reason |-> reason]

RECURSIVE SortedSeq(_)
SortedSeq(S) ==
    IF S = {} THEN <<>>
    ELSE LET m == CHOOSE x \in S : \A y \in S : x <= y
         IN <<m>> \o SortedSeq(S \ {m})

\* orderRepository.GetOrderItemsByOrderID: committed rows, ORDER BY oi.id
GetOrderItemsByOrderID(d, orderID) ==
    SortedSeq({k \in DOMAIN d.orderItems : d.orderItems[k].OrderID = orderID})

----
\* ---------------------------------------------------------------------
\* Order service.
\* ---------------------------------------------------------------------

\* The loop over req.OrderItems of CreateOrder (lines 140-184).
RECURSIVE CreateOrderLines(_, _, _, _, _)
CreateOrderLines(d, req, failAt, i, st) ==
    IF i > Len(req.OrderItems) \/ st.err # "none" THEN st
    ELSE
    LET itemReq == req.OrderItems[i]
        got == GetItemPriceAndStock(d, itemReq.PricelistItemID)
        itemTotalPrice == got.price * itemReq.Quantity
        s1 == [st EXCEPT !.totalAmount = @ + itemTotalPrice]
        s2 == UpdateStock(d, s1, failAt, itemReq.PricelistItemID, -itemReq.Quantity)
        s3 == IF s2.err # "none" THEN s2
              ELSE CreateMovement(s2, failAt,
                       Movement(itemReq.PricelistItemID, req.StaffID, MovementTypeSale,
                                -itemReq.Quantity, <<"Order creation">>))
        line == [PricelistItemID |-> itemReq.PricelistItemID,
                 Quantity |-> itemReq.Quantity,
                 UnitPrice |-> got.price,
                 TotalPrice |-> itemTotalPrice]
        add(s, q) == [s EXCEPT !.orderItemsToCreate = Append(@, line),
                               !.sold = Append(@, q)]
    IN  IF itemReq.Quantity <= 0 THEN Fail(st, "ErrValidation")
        ELSE IF got.err # "none" THEN Fail(st, "ErrPricelistItemNotFound")
        ELSE IF got.tracksStock
             THEN IF ~got.stock.Valid \/ got.stock.V < itemReq.Quantity
                  THEN Fail(s1, "ErrInsufficientStock")
                  ELSE CreateOrderLines(d, req, failAt, i + 1, add(s3, itemReq.Quantity))
             ELSE CreateOrderLines(d, req, failAt, i + 1, add(s1, 0))

InsertOrderItemsFirstOnly(failAt, orderID, i, st) ==
    IF st.orderItemsToCreate = <<>> \/ st.err # "none" THEN st
    ELSE LET itemModel == st.orderItemsToCreate[1]
             row == [OrderID |-> orderID,
                     PricelistItemID |-> itemModel.PricelistItemID,
                     Quantity |-> itemModel.Quantity,
                     UnitPrice |-> itemModel.UnitPrice,
                     TotalPrice |-> itemModel.TotalPrice]
         IN [Exec(st, Write("orderItem", st.seqs.orderItem, row))
                EXCEPT !.seqs.orderItem = @ + 1, !.itemIDs = <<st.seqs.orderItem>>]

\* The loop inserting the order items (lines 220-226); ids come from the
\* order_items sequence.
RECURSIVE InsertOrderItems(_, _, _, _)
InsertOrderItems(failAt, orderID, i, st) ==
    IF i > Len(st.orderItemsToCreate) \/ st.err # "none" THEN st
    ELSE IF Faulted(st, failAt) THEN FailStmt(st)
    ELSE LET itemModel == st.orderItemsToCreate[i]
             row == [OrderID |-> orderID,
                     PricelistItemID |-> itemModel.PricelistItemID,
                     Quantity |-> itemModel.Quantity,
                     UnitPrice |-> itemModel.UnitPrice,
                     TotalPrice |-> itemModel.TotalPrice]
             s1 == Exec(st, Write("orderItem", st.seqs.orderItem, row))
         IN InsertOrderItems(failAt, orderID, i + 1,
                [s1 EXCEPT !.seqs.orderItem = @ + 1,
                           !.itemIDs = Append(@, st.seqs.orderItem)])

\* tx.Commit() as the last statement of a transaction.
CommitStmt(st, failAt) ==
    IF st.err # "none" THEN st
    ELSE IF Faulted(st, failAt) THEN [st EXCEPT !.err = "ErrCommit", !.n = @ + 1]
    ELSE [st EXCEPT !.n = @ + 1]

NewTx(sq) ==
    [err |-> "none", w |-> <<>>, n |-> 0, seqs |-> sq, id |-> 0,
     totalAmount |-> 0, orderItemsToCreate |-> <<>>, sold |-> <<>>,
     itemIDs |-> <<>>, returned |-> <<>>]

\* orderService.CreateOrder up to and including tx.Commit(): the
\* transaction it builds and the error it returns.
CreateOrderTx(d, sq, req, failAt) ==
    LET st1 == CreateOrderLines(d, req, failAt, 1, NewTx(sq))
        totalAmount == st1.totalAmount
        finalAmount ==
            IF req.DiscountAmount.Valid
            THEN IF totalAmount - req.DiscountAmount.V < 0 THEN 0
                 ELSE totalAmount - req.DiscountAmount.V
            ELSE totalAmount
        order == [StaffID |-> req.StaffID, Status |-> req.Status,
                  TotalAmount |-> totalAmount,
                  DiscountAmount |-> req.DiscountAmount,
                  FinalAmount |-> finalAmount]
        createdOrderID == st1.seqs.order
        st2 == IF Faulted(st1, failAt) THEN FailStmt(st1)
               ELSE [Exec(st1, Write("order", createdOrderID, order))
                        EXCEPT !.seqs.order = @ + 1, !.id = createdOrderID]
        st3 == InsertOrderItems(failAt, createdOrderID, 1, st2)
    IN  IF st1.err # "none" THEN st1
        ELSE IF ~isValidOrderStatus(req.Status) THEN Fail(st1, "ErrInvalidOrderStatus")
        ELSE CommitStmt(st3, failAt)

\* The stock return loop shared in shape by UpdateOrderStatus (lines 302-327)
\* and DeleteOrder (lines 364-387); tracksStock is read from the committed row.
RECURSIVE ReturnStock(_, _, _, _, _, _, _, _)
ReturnStock(d, failAt, orderID, staffID, movementType, orderItems, i, st) ==
    IF i > Len(orderItems) \/ st.err # "none" THEN st
    ELSE
    LET item == d.orderItems[orderItems[i]]
        got == GetItemPriceAndStock(d, item.PricelistItemID)
        s2 == UpdateStock(d, st, failAt, item.PricelistItemID, item.Quantity)
        s3 == IF s2.err # "none" THEN s2
              ELSE CreateMovement(s2, failAt,
                       Movement(item.PricelistItemID, staffID, movementType,
                                item.Quantity, <<"Order", orderID>>))
    IN  IF got.err # "none" THEN Fail(st, "ErrItemDetails")
        ELSE IF got.tracksStock
             THEN ReturnStock(d, failAt, orderID, staffID, movementType, orderItems, i + 1,
                      [s3 EXCEPT !.returned = Append(@, orderItems[i])])
             ELSE ReturnStock(d, failAt, orderID, staffID, movementType, orderItems, i + 1, st)

\* orderRepository.UpdateOrderStatus(tx, ...): ErrNotFound when no row matches
UpdateOrderStatusStmt(d, st, failAt, orderID, newStatus) ==
    IF st.err # "none" THEN st
    ELSE IF Faulted(st, failAt) THEN FailStmt(st)
    ELSE IF orderID \notin DOMAIN ApplyWrites(d, st.w).orders
         THEN [Fail(st, "ErrOrderNotFound") EXCEPT !.n = @ + 1]
    ELSE Exec(st, Write("status", orderID, newStatus))

\* orderService.UpdateOrderStatus up to and including tx.Commit()
UpdateOrderStatusTx(d, sq, orderID, req, failAt) ==
    LET st0 == [NewTx(sq) EXCEPT !.id = orderID]
        currentOrder == d.orders[orderID]
        st1 == IF req.Status = StatusCancelled
                  /\ currentOrder.Status # StatusCancelled
                  /\ currentOrder.Status # StatusRefunded
               THEN ReturnStock(d, failAt, orderID, currentOrder.StaffID,
                                MovementTypeReturnCancellation,
                                GetOrderItemsByOrderID(d, orderID), 1, st0)
               ELSE st0
        st2 == UpdateOrderStatusStmt(d, st1, failAt, orderID, req.Status)
    IN  IF ~isValidOrderStatus(req.Status) THEN Fail(st0, "ErrInvalidOrderStatus")
        ELSE IF orderID \notin DOMAIN d.orders THEN Fail(st0, "ErrOrderNotFound")
        ELSE CommitStmt(st2, failAt)

\* Only the header is deleted; the order's items stay behind.
DeleteStmtsHeaderOnly(d, st, failAt, orderID) ==
    IF st.err # "none" THEN st
    ELSE IF Faulted(st, failAt) THEN FailStmt(st)
    ELSE IF orderID \notin DOMAIN ApplyWrites(d, st.w).orders
         THEN [Fail(st, "ErrOrderNotFound") EXCEPT !.n = @ + 1]
    ELSE Exec(st, Write("deleteOrder", orderID, 0))

\* orderRepository.DeleteOrderItemsByOrderID and DeleteOrder, in the transaction
DeleteStmts(d, st, failAt, orderID) ==
    LET s1 == IF st.err # "none" THEN st
              ELSE IF Faulted(st, failAt) THEN FailStmt(st)
              ELSE Exec(st, Write("deleteOrderItems", orderID, 0))
        s2 == IF s1.err # "none" THEN s1
              ELSE IF Faulted(s1, failAt) THEN FailStmt(s1)
              ELSE IF orderID \notin DOMAIN ApplyWrites(d, s1.w).orders
                   THEN [Fail(s1, "ErrOrderNotFound") EXCEPT !.n = @ + 1]
              ELSE Exec(s1, Write("deleteOrder", orderID, 0))
    IN s2

\* orderService.DeleteOrder up to and including tx.Commit()
DeleteOrderTx(d, sq, orderID, failAt) ==
    LET st0 == [NewTx(sq) EXCEPT !.id = orderID]
        order == d.orders[orderID]
        st1 == IF order.Status # StatusCancelled /\ order.Status # StatusRefunded
               THEN ReturnStock(d, failAt, orderID, order.StaffID, MovementTypeReturnDeletion,
                                GetOrderItemsByOrderID(d, orderID), 1, st0)
               ELSE st0
    IN  IF orderID \notin DOMAIN d.orders THEN Fail(st0, "ErrOrderNotFound")
        ELSE CommitStmt(DeleteStmts(d, st1, failAt, orderID), failAt)

----
\* ---------------------------------------------------------------------
\* Pricelist service (items).  Name, category, description, SKU and the
\* stored low-stock threshold take no part in any stock decision and are
\* left out of the row; the threshold of a request is validated.
\* ---------------------------------------------------------------------

\* pricelistRepository.CreateItem / UpdateItem: the current_stock column
\* written for an item model (NULL unless it tracks stock and has a value).
StockColumn(tracksStock, currentStock) ==
    IF tracksStock /\ currentStock.Valid THEN currentStock ELSE Null

\* A tracked item created without a stock value gets no default of zero.
CreateItemRowNoDefault(req) ==
    LET cs2 == IF ~req.TracksStock THEN Null ELSE req.CurrentStock
        lt == IF ~req.TracksStock THEN Null ELSE req.LowStockThreshold
    IN  IF req.TracksStock /\ cs2.Valid /\ cs2.V < 0
        THEN [err |-> "ErrValidation", row |-> Null]
        ELSE IF lt.Valid /\ lt.V < 0
        THEN [err |-> "ErrValidation", row |-> Null]
        ELSE [err |-> "none",
              row |-> [Price |-> req.Price, TracksStock |-> req.TracksStock,
                       CurrentStock |-> StockColumn(req.TracksStock, cs2)]]

\* pricelistService.CreateItem: the row inserted, or the error returned.
CreateItemRow(req) ==
    LET cs1 == IF req.TracksStock /\ ~req.CurrentStock.Valid THEN Some(0)
               ELSE req.CurrentStock
        cs2 == IF ~req.TracksStock THEN Null ELSE cs1
        lt == IF ~req.TracksStock THEN Null ELSE req.LowStockThreshold
    IN  IF req.TracksStock /\ cs2.Valid /\ cs2.V < 0
        THEN [err |-> "ErrValidation", row |-> Null]
        ELSE IF lt.Valid /\ lt.V < 0
        THEN [err |-> "ErrValidation", row |-> Null]
        ELSE [err |-> "none",
              row |-> [Price |-> req.Price, TracksStock |-> req.TracksStock,
                       CurrentStock |-> StockColumn(req.TracksStock, cs2)]]

\* pricelistService.UpdateItem: the row written back over the one read by
\* GetItemByID, or the error returned.
UpdateItemRow(item, req) ==
    LET price == IF req.Price.Valid THEN req.Price.V ELSE item.Price
        tracks == IF req.TracksStock.Valid THEN req.TracksStock.V ELSE item.TracksStock
        negative == req.CurrentStock.Valid /\ req.CurrentStock.V < 0
        stock == IF req.TracksStock.Valid
                 THEN IF ~tracks THEN Null
                      ELSE IF req.CurrentStock.Valid THEN req.CurrentStock
                      ELSE IF ~item.CurrentStock.Valid THEN Some(0)
                      ELSE item.CurrentStock
                 ELSE IF req.CurrentStock.Valid THEN req.CurrentStock
                 ELSE item.CurrentStock
        bad == \/ req.TracksStock.Valid /\ tracks /\ negative
               \/ ~req.TracksStock.Valid /\ req.CurrentStock.Valid
                    /\ (~item.TracksStock \/ negative)
               \/ req.LowStockThreshold.Valid
                    /\ (~tracks \/ req.LowStockThreshold.V < 0)
    IN  IF bad THEN [err |-> "ErrValidation", row |-> item]
        ELSE [err |-> "none",
              row |-> [Price |-> price, TracksStock |-> tracks,
                       CurrentStock |-> StockColumn(tracks, stock)]]

----
\* ---------------------------------------------------------------------
\* Requests served one at a time: each action is one whole service call.
\* ---------------------------------------------------------------------

\* Ids of pricelist items a request may name; no item has id 3.
ItemIDs == {1, 2, 3}
\* Ids of pricelist items when the catalog starts with item 1 alone.
CatalogItemIDs == {1, 2}

NoResult == [op |-> "none", err |-> "none", id |-> 0, wrote |-> FALSE]

InitOrders ==
    /\ db = [items |-> (1 :> [Price |-> 5, TracksStock |-> TRUE, CurrentStock |-> Some(3)])
                         @@ (2 :> [Price |-> 8, TracksStock |-> FALSE, CurrentStock |-> Null]),
             movements |-> EmptyBag,
             orders |-> <<>>,
             orderItems |-> <<>>]
    /\ seqs = [order |-> 1, orderItem |-> 1, item |-> 3]
    /\ result = NoResult
    /\ ghost = [initialStock |-> (1 :> 3) @@ (2 :> 0), deducted |-> <<>>, credited |-> <<>>]

\* History bookkeeping of a committed transaction: units taken from stock per
\* created order line, units put back per order line.
Account(g, d, st) ==
    [g EXCEPT
       !.deducted = @ @@ [k \in {st.itemIDs[i] : i \in 1..Len(st.itemIDs)} |->
                            st.sold[CHOOSE i \in 1..Len(st.itemIDs) : st.itemIDs[i] = k]],
       !.credited = [k \in DOMAIN @ \cup {st.itemIDs[i] : i \in 1..Len(st.itemIDs)} |->
                       (IF k \in DOMAIN @ THEN @[k] ELSE 0)
                       + (IF \E i \in 1..Len(st.returned) : st.returned[i] = k
                          THEN d.orderItems[k].Quantity ELSE 0)]]

\* The end of a transactional service call: commit or rollback, and the reply.
Finish(op, st) ==
    /\ db' = IF st.err = "none" THEN Commit(db, st.w) ELSE Rollback(db, st.w)
    /\ BagCardinality(db'.movements) <= MaxMovements
    /\ seqs' = st.seqs
    /\ result' = [op |-> op, err |-> st.err,
                  id |-> IF st.err = "none" THEN st.id ELSE 0,
                  wrote |-> st.w # <<>>]
    /\ ghost' = IF st.err = "none" THEN Account(ghost, db, st) ELSE ghost

CreateOrder(req, failAt) ==
    /\ seqs.order <= MaxOrders
    /\ Finish("CreateOrder", CreateOrderTx(db, seqs, req, failAt))
    /\ UNCHANGED <<bookingVars, procs>>

UpdateOrderStatus(orderID, req, failAt) ==
    /\ Finish("UpdateOrderStatus", UpdateOrderStatusTx(db, seqs, orderID, req, failAt))
    /\ UNCHANGED <<bookingVars, procs>>

DeleteOrder(orderID, failAt) ==
    /\ Finish("DeleteOrder", DeleteOrderTx(db, seqs, orderID, failAt))
    /\ UNCHANGED <<bookingVars, procs>>

CreateItem(req) ==
    /\ seqs.item \in CatalogItemIDs
    /\ LET r == CreateItemRow(req) IN
        /\ db' = IF r.err = "none"
                 THEN [db EXCEPT !.items = @ @@ (seqs.item :> r.row)]
                 ELSE db
        /\ seqs' = IF r.err = "none" THEN [seqs EXCEPT !.item = @ + 1] ELSE seqs
        /\ ghost' = IF r.err = "none"
                    THEN [ghost EXCEPT !.initialStock = @ @@ (seqs.item :>
                            (IF r.row.CurrentStock.Valid THEN r.row.CurrentStock.V ELSE 0))]
                    ELSE ghost
        /\ result' = [op |-> "CreateItem", err |-> r.err,
                      id |-> IF r.err = "none" THEN seqs.item ELSE 0,
                      wrote |-> r.err = "none"]
    /\ UNCHANGED <<bookingVars, procs>>

\* A price update that also reprices the order items of the item.
UpdateItemReprices(itemID, req) ==
    /\ LET r == IF itemID \in DOMAIN db.items
                THEN UpdateItemRow(db.items[itemID], req)
                ELSE [err |-> "ErrItemNotFound", row |-> Null] IN
        /\ db' = IF r.err = "none"
                 THEN [db EXCEPT !.items[itemID] = r.row,
                                 !.orderItems = [k \in DOMAIN db.orderItems |->
                                     IF db.orderItems[k].PricelistItemID = itemID
                                     THEN [db.orderItems[k] EXCEPT
                                             !.UnitPrice = r.row.Price,
                                             !.TotalPrice = db.orderItems[k].Quantity * r.row.Price]
                                     ELSE db.orderItems[k]]]
                 ELSE db
        /\ result' = [op |-> "UpdateItem", err |-> r.err,
                      id |-> IF r.err = "none" THEN itemID ELSE 0,
                      wrote |-> r.err = "none"]
    /\ UNCHANGED <<seqs, ghost, bookingVars, procs>>

UpdateItem(itemID, req) ==
    /\ LET r == IF itemID \in DOMAIN db.items
                THEN UpdateItemRow(db.items[itemID], req)
                ELSE [err |-> "ErrItemNotFound", row |-> Null] IN
        /\ db' = IF r.err = "none" THEN [db EXCEPT !.items[itemID] = r.row] ELSE db
        /\ result' = [op |-> "UpdateItem", err |-> r.err,
                      id |-> IF r.err = "none" THEN itemID ELSE 0,
                      wrote |-> r.err = "none"]
    /\ UNCHANGED <<seqs, ghost, bookingVars, procs>>

OrderIDs == 1..(MaxOrders + 1)
Line(itemID, quantity) == [PricelistItemID |-> itemID, Quantity |-> quantity]
Lines == {Line(1, 2), Line(1, 4), Line(2, 1), Line(1, 0), Line(3, 1)}
\* one line, or a first line that passes the catalog lookup and a second line
LineLists ==
    {<<l>> : l \in Lines}
    \cup {<<l1, l2>> : l1 \in {Line(1, 2), Line(2, 1)}, l2 \in Lines}
RequestStatuses == {StatusPending, StatusCancelled, StatusRefunded, "unknown"}
CreateOrderRequests ==
    [StaffID : {1}, Status : {StatusPending, "unknown"},
     DiscountAmount : {Null},
     OrderItems : LineLists]
CatalogOrderRequests ==
    [StaffID : {1}, Status : {StatusPending}, DiscountAmount : {Null},
     OrderItems : {<<l>> : l \in [PricelistItemID : CatalogItemIDs, Quantity : {1, 2}]}]
UpdateOrderStatusRequests == [Status : RequestStatuses]
CreateItemRequests ==
    [Price : {8}, TracksStock : BOOLEAN, CurrentStock : {Null, Some(2)},
     LowStockThreshold : {Null}]
UpdateItemRequests ==
    [Price : {Null}, TracksStock : {Null, Some(TRUE), Some(FALSE)},
     CurrentStock : {Null, Some(-1), Some(4)}, LowStockThreshold : {Null, Some(1)}]
Faults == 0..8

InitBookings ==
    /\ bookings = <<>>
    /\ bseq = 1
    /\ now = 10
    /\ bresult = [op |-> "none", err |-> "none", id |-> 0]

Init == InitOrders /\ InitBookings /\ procs = <<>>

\* Order requests served one at a time over a fixed catalog.
Next ==
    \/ \E req \in CreateOrderRequests, failAt \in Faults : CreateOrder(req, failAt)
    \/ \E orderID \in OrderIDs, req \in UpdateOrderStatusRequests, failAt \in Faults :
          UpdateOrderStatus(orderID, req, failAt)
    \/ \E orderID \in OrderIDs, failAt \in Faults : DeleteOrder(orderID, failAt)

Spec == Init /\ [][Next]_vars

\* Order and catalog requests served one at a time.
NextCatalog ==
    \/ \E req \in CatalogOrderRequests : CreateOrder(req, 0)
    \/ \E orderID \in OrderIDs, req \in UpdateOrderStatusRequests :
          UpdateOrderStatus(orderID, req, 0)
    \/ \E orderID \in OrderIDs : DeleteOrder(orderID, 0)
    \/ \E req \in CreateItemRequests : CreateItem(req)
    \/ \E itemID \in CatalogItemIDs, req \in UpdateItemRequests : UpdateItem(itemID, req)

InitCatalogOrders ==
    /\ db = [items |-> (1 :> [Price |-> 5, TracksStock |-> TRUE, CurrentStock |-> Some(3)]),
             movements |-> EmptyBag,
             orders |-> <<>>,
             orderItems |-> <<>>]
    /\ seqs = [order |-> 1, orderItem |-> 1, item |-> 2]
    /\ result = NoResult
    /\ ghost = [initialStock |-> (1 :> 3), deducted |-> <<>>, credited |-> <<>>]

InitCatalog == InitCatalogOrders /\ InitBookings /\ procs = <<>>

SpecCatalog == InitCatalog /\ [][NextCatalog]_vars

----
\* Orders with discounts over a catalog whose prices change.
AmountOrderRequests ==
    [StaffID : {1}, Status : {StatusPending},
     DiscountAmount : {Null, Some(3), Some(20)},
     OrderItems : {<<Line(1, 1)>>, <<Line(1, 2), Line(2, 1)>>}]
PriceUpdateRequests ==
    [Price : {Some(-1), Some(7)}, TracksStock : {Null}, CurrentStock : {Null},
     LowStockThreshold : {Null}]

NextAmounts ==
    \/ \E req \in AmountOrderRequests : CreateOrder(req, 0)
    \/ \E orderID \in OrderIDs, req \in [Status : {StatusCompleted, StatusCancelled}] :
          UpdateOrderStatus(orderID, req, 0)
    \/ \E orderID \in OrderIDs : DeleteOrder(orderID, 0)
    \/ \E itemID \in {1, 3}, req \in PriceUpdateRequests : UpdateItem(itemID, req)

SpecAmounts == Init /\ [][NextAmounts]_vars

----
\* ---------------------------------------------------------------------
\* Booking repository and service.  Times are minutes on the wall clock;
\* a request carries them as text, well formed or not.
\* ---------------------------------------------------------------------

BookingStatusConfirmed == "confirmed"
BookingStatusCancelled == "cancelled"
BookingStatusCompleted == "completed"
BookingStatusNoShow == "no-show"
BookingStatusPending == "pending"
\* named by CheckTableAvailability, declared in no source file at hand
BookingStatusCheckedIn == "checked-in"

IsValidBookingStatus(status) ==
    status \in {BookingStatusConfirmed, BookingStatusCancelled, BookingStatusCompleted,
                BookingStatusNoShow, BookingStatusPending}

MinBookingMinutes == 15
MaxBookingMinutes == 720
PastToleranceMinutes == 5

\* time.Time.Format(time.RFC3339) of a stored time, and the request text of
\* an instant
TimeText(t) == [ok |-> TRUE, t |-> t]
BadTimeText == [ok |-> FALSE, t |-> 0]

\* parseDateTime: the instant of a well-formed text, an error otherwise
parseDateTime(text) ==
    IF text.ok THEN [err |-> "none", t |-> text.t]
    ELSE [err |-> "ErrInvalidBookingTime", t |-> 0]

parseAndValidateBookingTimesStrictMin(startTimeStr, endTimeStr, forUpdate, existingStartTime, clock, sameTime) ==
    IF startTimeStr.ok /\ endTimeStr.ok
       /\ endTimeStr.t - startTimeStr.t > 15 /\ endTimeStr.t - startTimeStr.t <= 720
       /\ (forUpdate \/ startTimeStr.t >= clock - 5)
    THEN [err |-> "none", startTime |-> startTimeStr.t, endTime |-> endTimeStr.t]
    ELSE [err |-> "ErrInvalidBookingTime", startTime |-> 0, endTime |-> 0]

\* bookingService.parseAndValidateBookingTimes.  existingStartTime is Null
\* for a new booking.  sameTime says whether a parsed time of the same
\* instant as the stored one is == to it as a time.Time value, which depends
\* on the Location each carries.
parseAndValidateBookingTimes(startTimeStr, endTimeStr, forUpdate, existingStartTime, clock, sameTime) ==
    LET startTime == parseDateTime(startTimeStr)
        endTime == parseDateTime(endTimeStr)
        bad == [err |-> "ErrInvalidBookingTime", startTime |-> 0, endTime |-> 0]
        differs == startTime.t # existingStartTime.V \/ ~sameTime
    IN  IF startTime.err # "none" THEN bad
        ELSE IF endTime.err # "none" THEN bad
        ELSE IF ~(endTime.t > startTime.t) THEN bad
        ELSE IF endTime.t - startTime.t < MinBookingMinutes THEN bad
        ELSE IF endTime.t - startTime.t > MaxBookingMinutes THEN bad
        ELSE IF ~forUpdate /\ startTime.t < clock - PastToleranceMinutes THEN bad
        ELSE IF forUpdate /\ existingStartTime.Valid /\ differs
                /\ startTime.t < clock - PastToleranceMinutes THEN bad
        ELSE [err |-> "none", startTime |-> startTime.t, endTime |-> endTime.t]

CheckTableAvailabilityClosed(bk, tableID, startTime, endTime, excludeBookingID) ==
    {b \in DOMAIN bk :
        /\ bk[b].TableID = tableID
        /\ bk[b].Status \in {BookingStatusConfirmed, BookingStatusCheckedIn}
        /\ bk[b].StartTime <= endTime /\ bk[b].EndTime >= startTime
        /\ (excludeBookingID.Valid => b # excludeBookingID.V)} = {}

\* bookingRepository.CheckTableAvailability: TRUE when the count of rows on
\* the table with an active status and an overlapping interval is zero
CheckTableAvailability(bk, tableID, startTime, endTime, excludeBookingID) ==
    Cardinality({b \in DOMAIN bk :
        /\ bk[b].TableID = tableID
        /\ bk[b].Status \in {BookingStatusConfirmed, BookingStatusCheckedIn}
        /\ bk[b].StartTime < endTime /\ bk[b].EndTime > startTime
        /\ (excludeBookingID.Valid => b # excludeBookingID.V)}) = 0

InsertBookingIfAvailable(bk, id, row) ==
    IF CheckTableAvailability(bk, row.TableID, row.StartTime, row.EndTime, Null)
    THEN bk @@ (id :> row) ELSE bk
\* bookingRepository.CreateBooking: plain INSERT of the row
InsertBooking(bk, id, row) == bk @@ (id :> row)

\* Existing clients and staff members (lookups of the client and staff
\* repositories).
Clients == {1}
Staff == {1}

\* bookingService.CreateBooking up to the insert: the row to insert or the
\* error returned.
CreateBookingRow(bk, req, clock) ==
    LET times == parseAndValidateBookingTimes(req.StartTime, req.EndTime, FALSE, Null,
                                              clock, TRUE)
        available == CheckTableAvailability(bk, req.TableID, times.startTime,
                                            times.endTime, Null)
        \* strings.TrimSpace(*req.Status) != ""
        given == req.Status.Valid /\ req.Status.V # ""
        status == IF given THEN req.Status.V ELSE BookingStatusConfirmed
        fail(e) == [err |-> e, row |-> Null]
    IN  IF times.err # "none" THEN fail(times.err)
        ELSE IF req.ClientID.Valid /\ req.ClientID.V \notin Clients
             THEN fail("ErrClientForBookingNotFound")
        ELSE IF req.StaffID \notin Staff THEN fail("ErrStaffForBookingNotFound")
        ELSE IF ~available THEN fail("ErrTableNotAvailable")
        ELSE IF given /\ ~IsValidBookingStatus(req.Status.V) THEN fail("ErrBookingValidation")
        ELSE [err |-> "none",
              row |-> [TableID |-> req.TableID, StartTime |-> times.startTime,
                       EndTime |-> times.endTime, Status |-> status]]

\* bookingService.UpdateBooking up to the repository update: the row to
\* write over the booking or the error returned.
UpdateBookingRow(bk, bookingID, req, clock, sameTime) ==
    LET stored == bk[bookingID]
        \* line 220: the loaded booking takes the requested table at once
        booking == IF req.TableID.Valid THEN [stored EXCEPT !.TableID = req.TableID.V]
                   ELSE stored
        timeChanged == req.StartTime.Valid \/ req.EndTime.Valid
        sTimeStr == IF req.StartTime.Valid THEN req.StartTime.V
                    ELSE TimeText(booking.StartTime)
        eTimeStr == IF req.EndTime.Valid THEN req.EndTime.V
                    ELSE TimeText(booking.EndTime)
        times == IF timeChanged
                 THEN parseAndValidateBookingTimes(sTimeStr, eTimeStr, TRUE,
                                                   Some(booking.StartTime), clock, sameTime)
                 ELSE [err |-> "none", startTime |-> booking.StartTime,
                       endTime |-> booking.EndTime]
        \* line 238: compares the requested table with the table just assigned
        recheck == timeChanged \/ (req.TableID.Valid /\ req.TableID.V # booking.TableID)
        available == CheckTableAvailability(bk, booking.TableID, times.startTime,
                                            times.endTime, Some(bookingID))
        status == IF req.Status.Valid THEN req.Status.V ELSE booking.Status
        fail(e) == [err |-> e, row |-> Null]
    IN  IF bookingID \notin DOMAIN bk THEN fail("ErrBookingNotFound")
        ELSE IF stored.Status \in {BookingStatusCompleted, BookingStatusCancelled}
             THEN fail("ErrBookingValidation")
        ELSE IF times.err # "none" THEN fail(times.err)
        ELSE IF recheck /\ ~available THEN fail("ErrTableNotAvailable")
        ELSE IF req.Status.Valid /\ ~IsValidBookingStatus(req.Status.V)
             THEN fail("ErrBookingValidation")
        ELSE [err |-> "none",
              row |-> [TableID |-> booking.TableID, StartTime |-> times.startTime,
                       EndTime |-> times.endTime, Status |-> status]]

UpdateBookingStatusRowUnguarded(bk, bookingID, newStatus) ==
    IF bookingID \notin DOMAIN bk THEN [err |-> "ErrBookingNotFound", row |-> Null]
    ELSE [err |-> "none", row |-> [bk[bookingID] EXCEPT !.Status = newStatus]]

\* bookingService.updateBookingStatus up to the repository update
UpdateBookingStatusRow(bk, bookingID, newStatus) ==
    LET fail(e) == [err |-> e, row |-> Null] IN
    IF bookingID \notin DOMAIN bk THEN fail("ErrBookingNotFound")
    ELSE IF bk[bookingID].Status = BookingStatusCompleted
            /\ newStatus # BookingStatusCompleted THEN fail("ErrBookingStatusUpdate")
    ELSE IF bk[bookingID].Status = BookingStatusCancelled
            /\ newStatus # BookingStatusCancelled THEN fail("ErrBookingStatusUpdate")
    ELSE [err |-> "none", row |-> [bk[bookingID] EXCEPT !.Status = newStatus]]

\* The reply of a booking call and the table after it.
BookingReply(op, r, id, bk) ==
    /\ bookings' = IF r.err = "none" THEN bk ELSE bookings
    /\ bresult' = [op |-> op, err |-> r.err, id |-> IF r.err = "none" THEN id ELSE 0]

CreateBooking(req) ==
    /\ bseq <= MaxBookings
    /\ LET r == CreateBookingRow(bookings, req, now) IN
        /\ BookingReply("CreateBooking", r, bseq, InsertBooking(bookings, bseq, r.row))
        /\ bseq' = IF r.err = "none" THEN bseq + 1 ELSE bseq
    /\ UNCHANGED <<now, orderVars, procs>>

UpdateBooking(bookingID, req, sameTime) ==
    /\ LET r == UpdateBookingRow(bookings, bookingID, req, now, sameTime) IN
        BookingReply("UpdateBooking", r, bookingID,
                     [bookings EXCEPT ![bookingID] = r.row])
    /\ UNCHANGED <<bseq, now, orderVars, procs>>

CancelBooking(bookingID) ==
    /\ LET r == UpdateBookingStatusRow(bookings, bookingID, BookingStatusCancelled) IN
        BookingReply("CancelBooking", r, bookingID,
                     [bookings EXCEPT ![bookingID] = r.row])
    /\ UNCHANGED <<bseq, now, orderVars, procs>>

CompleteBooking(bookingID) ==
    /\ LET r == UpdateBookingStatusRow(bookings, bookingID, BookingStatusCompleted) IN
        BookingReply("CompleteBooking", r, bookingID,
                     [bookings EXCEPT ![bookingID] = r.row])
    /\ UNCHANGED <<bseq, now, orderVars, procs>>

DeleteBooking(bookingID) ==
    /\ LET r == IF bookingID \in DOMAIN bookings THEN [err |-> "none"]
                ELSE [err |-> "ErrBookingNotFound"] IN
        BookingReply("DeleteBooking", r, bookingID, RemoveKey(bookings, bookingID))
    /\ UNCHANGED <<bseq, now, orderVars, procs>>

TableIDs == {1, 2}
BookingIDs == 1..(MaxBookings + 1)
TimePoints == {0, 10, 25, 40}
TimeTexts == {TimeText(t) : t \in TimePoints}
BookingRequest(clientID, tableID, staffID, startTime, endTime, status) ==
    [ClientID |-> clientID, TableID |-> tableID, StaffID |-> staffID,
     StartTime |-> startTime, EndTime |-> endTime, Status |-> status]
CreateBookingRequests ==
    {BookingRequest(Null, t, 1, TimeText(x), TimeText(y), st) :
        t \in TableIDs, x \in {0, 10, 25}, y \in {10, 25, 40},
        st \in {Null, Some(BookingStatusPending)}}
    \cup {BookingRequest(Null, 1, 1, BadTimeText, TimeText(40), Null),
          BookingRequest(Null, 1, 1, TimeText(10), BadTimeText, Null),
          BookingRequest(Some(9), 1, 1, TimeText(10), TimeText(40), Null),
          BookingRequest(Some(1), 1, 9, TimeText(10), TimeText(40), Null),
          BookingRequest(Some(1), 2, 1, TimeText(10), TimeText(40), Some("")),
          BookingRequest(Null, 2, 1, TimeText(25), TimeText(40), Some("unknown"))}
BookingUpdate(tableID, startTime, endTime, status) ==
    [TableID |-> tableID, StartTime |-> startTime, EndTime |-> endTime, Status |-> status]
UpdateBookingRequests ==
    {BookingUpdate(t, x, y, Null) :
        t \in {Null} \cup {Some(i) : i \in TableIDs},
        x \in {Null, Some(TimeText(0)), Some(TimeText(10)), Some(TimeText(25))},
        y \in {Null, Some(TimeText(25)), Some(TimeText(40)), Some(BadTimeText)}}
    \cup {BookingUpdate(Null, Null, Null, Some(st)) :
        st \in {BookingStatusConfirmed, BookingStatusPending, "unknown"}}

\* Booking requests served one at a time.
NextBooking ==
    \/ \E req \in CreateBookingRequests : CreateBooking(req)
    \/ \E bookingID \in BookingIDs, req \in UpdateBookingRequests, sameTime \in BOOLEAN :
          UpdateBooking(bookingID, req, sameTime)
    \/ \E bookingID \in BookingIDs : CancelBooking(bookingID)
    \/ \E bookingID \in BookingIDs : CompleteBooking(bookingID)
    \/ \E bookingID \in BookingIDs : DeleteBooking(bookingID)

SpecBooking == Init /\ [][NextBooking]_vars

----
\* ---------------------------------------------------------------------
\* CreateBooking against a running clock.  procs keeps the request served
\* last.
\* ---------------------------------------------------------------------

\* time.Now() advances between calls
Tick ==
    /\ now < MaxNow
    /\ now' = now + 1
    /\ UNCHANGED <<bookings, bseq, bresult, orderVars, procs>>

CreateBookingAt(req) ==
    /\ bseq <= MaxBookings
    /\ LET r == CreateBookingRow(bookings, req, now) IN
        /\ BookingReply("CreateBooking", r, bseq, InsertBooking(bookings, bseq, r.row))
        /\ bseq' = IF r.err = "none" THEN bseq + 1 ELSE bseq
    /\ procs' = <<req>>
    /\ UNCHANGED <<now, orderVars>>

WindowRequests ==
    {BookingRequest(Null, 1, 1, TimeText(x), TimeText(y), Null) :
        x \in {4, 5, 6, 20}, y \in {5, 19, 20, 21, 725, 726, 740}}
    \cup {BookingRequest(Null, 1, 1, BadTimeText, TimeText(20), Null),
          BookingRequest(Null, 1, 1, TimeText(5), BadTimeText, Null)}

NextBookingTime ==
    \/ Tick
    \/ \E req \in WindowRequests : CreateBookingAt(req)

SpecBookingTime == Init /\ [][NextBookingTime]_vars

----
\* ---------------------------------------------------------------------
\* The booking repository on its own: rows inserted, availability queried.
\* ---------------------------------------------------------------------

RepoCreateBooking(row) ==
    /\ bseq <= MaxBookings
    /\ bookings' = InsertBooking(bookings, bseq, row)
    /\ bseq' = bseq + 1
    /\ bresult' = [op |-> "CreateBooking", err |-> "none", id |-> bseq]
    /\ UNCHANGED <<now, orderVars, procs>>

RepoCheckTableAvailability(tableID, startTime, endTime, excludeBookingID) ==
    /\ bresult' = [op |-> "CheckTableAvailability", err |-> "none", id |-> 0,
                   tableID |-> tableID, startTime |-> startTime, endTime |-> endTime,
                   excludeBookingID |-> excludeBookingID,
                   available |-> CheckTableAvailability(bookings, tableID, startTime,
                                                        endTime, excludeBookingID)]
    /\ UNCHANGED <<bookings, bseq, now, orderVars, procs>>

Intervals == {<<10, 25>>, <<25, 40>>, <<10, 40>>}
BookingRows ==
    {[TableID |-> t, StartTime |-> iv[1], EndTime |-> iv[2], Status |-> st] :
        t \in TableIDs, iv \in Intervals,
        st \in {BookingStatusConfirmed, BookingStatusCheckedIn, BookingStatusCancelled}}

NextAvailability ==
    \/ \E row \in BookingRows : RepoCreateBooking(row)
    \/ \E t \in TableIDs, iv \in {<<10, 25>>, <<25, 40>>}, ex \in {Null, Some(1)} :
          RepoCheckTableAvailability(t, iv[1], iv[2], ex)

SpecAvailability == Init /\ [][NextAvailability]_vars

----
\* ---------------------------------------------------------------------
\* Concurrent requests.  Each request runs on its own goroutine and
\* connection; a step is one round trip to the store.
\* ---------------------------------------------------------------------

Procs == {1, 2}
Idle == [pc |-> "idle"]

\* CreateBooking, lines 120-162: validation, the availability query and the
\* choice of the status.
BookingCheck(p, req) ==
    /\ procs[p].pc = "idle"
    /\ bseq <= MaxBookings
    /\ LET r == CreateBookingRow(bookings, req, now) IN
        procs' = [procs EXCEPT ![p] =
                    IF r.err = "none" THEN [pc |-> "insert", row |-> r.row]
                    ELSE [pc |-> "done", err |-> r.err, id |-> 0]]
    /\ UNCHANGED <<bookingVars, orderVars>>

\* CreateBooking, lines 163-181: the insert and the reply.
BookingInsert(p) ==
    /\ procs[p].pc = "insert"
    /\ bookings' = InsertBooking(bookings, bseq, procs[p].row)
    /\ bseq' = bseq + 1
    /\ procs' = [procs EXCEPT ![p] = [pc |-> "done", err |-> "none", id |-> bseq]]
    /\ UNCHANGED <<now, bresult, orderVars>>

\* The reply has been sent; the goroutine serves the next request.
BookingReturn(p) ==
    /\ procs[p].pc = "done"
    /\ procs' = [procs EXCEPT ![p] = Idle]
    /\ UNCHANGED <<bookingVars, orderVars>>

RaceBookingRequests ==
    {BookingRequest(Null, 1, 1, TimeText(10), TimeText(25), Null),
     BookingRequest(Null, 1, 1, TimeText(10), TimeText(40), Null),
     BookingRequest(Null, 1, 1, TimeText(25), TimeText(40), Null),
     BookingRequest(Null, 2, 1, TimeText(10), TimeText(40), Null)}

NextBookingRace ==
    \/ \E p \in Procs, req \in RaceBookingRequests : BookingCheck(p, req)
    \/ \E p \in Procs : BookingInsert(p)
    \/ \E p \in Procs : BookingReturn(p)

\* Both goroutines wait for a request.
InitRace == InitOrders /\ InitBookings /\ procs = [p \in Procs |-> Idle]

SpecBookingRace == InitRace /\ [][NextBookingRace]_vars

\* Items whose row the transaction st has updated and so holds locked.
LockedItems(st) == {st.w[i].id : i \in {j \in 1..Len(st.w) : st.w[j].kind = "stock"}}

\* CreateOrder, lines 131-146: BeginTx and the read of price and stock
\* through r.db.
OrderRead(p, req) ==
    /\ procs[p].pc = "idle"
    /\ procs' = [procs EXCEPT ![p] = [pc |-> "read", req |-> req, seen |-> db]]
    /\ UNCHANGED <<bookingVars, orderVars>>

\* CreateOrder, lines 147-226 of a one-line request: the sufficiency check on
\* the values read, then the statements of the transaction.  UPDATE waits
\* while another open transaction holds the row.
OrderWrite(p) ==
    /\ procs[p].pc = "read"
    /\ LET st == CreateOrderTx(procs[p].seen, seqs, procs[p].req, 0) IN
        /\ \A q \in Procs \ {p} :
              procs[q].pc = "written" => LockedItems(st) \cap LockedItems(procs[q].st) = {}
        /\ IF st.err = "none"
           THEN /\ procs' = [procs EXCEPT ![p] =
                               [pc |-> "written", req |-> procs[p].req, st |-> st]]
                /\ seqs' = st.seqs
                /\ UNCHANGED <<db, result, ghost>>
           ELSE /\ procs' = [procs EXCEPT ![p] =
                               [pc |-> "done", req |-> procs[p].req, err |-> st.err]]
                /\ result' = [op |-> "CreateOrder", err |-> st.err, id |-> 0,
                              wrote |-> st.w # <<>>]
                /\ UNCHANGED <<db, seqs, ghost>>
    /\ UNCHANGED bookingVars

\* CreateOrder, lines 228-233: tx.Commit() and the reply.
OrderCommit(p) ==
    /\ procs[p].pc = "written"
    /\ LET st == procs[p].st IN
        /\ db' = Commit(db, st.w)
        /\ ghost' = Account(ghost, db, st)
        /\ result' = [op |-> "CreateOrder", err |-> "none", id |-> st.id, wrote |-> TRUE]
    /\ procs' = [procs EXCEPT ![p] = [pc |-> "done", req |-> procs[p].req, err |-> "none"]]
    /\ UNCHANGED <<seqs, bookingVars>>

RaceOrderRequests ==
    [StaffID : {1}, Status : {StatusPending}, DiscountAmount : {Null},
     OrderItems : {<<Line(1, 1)>>, <<Line(1, 2)>>, <<Line(2, 1)>>}]

NextOrderRace ==
    \/ \E p \in Procs, req \in RaceOrderRequests : OrderRead(p, req)
    \/ \E p \in Procs : OrderWrite(p)
    \/ \E p \in Procs : OrderCommit(p)

SpecOrderRace == InitRace /\ [][NextOrderRace]_vars

----
\* ---------------------------------------------------------------------
\* Properties of the order / inventory ledger.
\* ---------------------------------------------------------------------

RECURSIVE SumOver(_, _)
\* sum of f[x] over the finite set S
SumOver(f, S) ==
    IF S = {} THEN 0
    ELSE LET x == CHOOSE y \in S : TRUE IN f[x] + SumOver(f, S \ {x})

\* sum of the signed deltas of the movements recorded for an item
MovementSum(d, itemID) ==
    LET ms == {m \in DOMAIN d.movements : m.PricelistItemID = itemID}
    IN SumOver([m \in ms |-> d.movements[m] * m.QuantityChanged], ms)

\* C1: stock conservation - for every stock-tracked item the current stock
\* equals the item's initial stock plus the sum of the signed deltas of the
\* movements recorded for it.
C1_StockConservation ==
    \A i \in DOMAIN db.items :
        db.items[i].TracksStock =>
            /\ db.items[i].CurrentStock.Valid
            /\ db.items[i].CurrentStock.V = ghost.initialStock[i] + MovementSum(db, i)

\* C2: the current stock of a stock-tracked item is never negative when
\* order requests are served one at a time.
C2_StockNeverNegative ==
    \A i \in DOMAIN db.items :
        db.items[i].TracksStock =>
            db.items[i].CurrentStock.Valid /\ db.items[i].CurrentStock.V >= 0

C4_NoDoubleCredit ==
    \A k \in DOMAIN ghost.credited : ghost.credited[k] <= ghost.deducted[k]

\* the bag of return-on-cancel movements, one per line of the order whose
\* item tracks stock
RECURSIVE ReturnMovements(_, _, _)
ReturnMovements(d, orderID, ks) ==
    IF ks = <<>> THEN EmptyBag
    ELSE LET item == d.orderItems[Head(ks)]
             rest == ReturnMovements(d, orderID, Tail(ks))
         IN IF d.items[item.PricelistItemID].TracksStock
            THEN rest (+) SetToBag({[PricelistItemID |-> item.PricelistItemID,
                                     StaffID |-> d.orders[orderID].StaffID,
                                     MovementType |-> MovementTypeReturnCancellation,
                                     QuantityChanged |-> item.Quantity,
                                     Reason |-> <<"Order", orderID>>]})
            ELSE rest

\* units of an item on the lines of an order
LineQuantity(d, orderID, itemID) ==
    LET ks == {k \in DOMAIN d.orderItems :
                  d.orderItems[k].OrderID = orderID
                  /\ d.orderItems[k].PricelistItemID = itemID}
    IN SumOver([k \in ks |-> d.orderItems[k].Quantity], ks)

\* a successful UpdateOrderStatus to cancelled of an order that is neither
\* cancelled nor refunded
CancelStep ==
    /\ result'.op = "UpdateOrderStatus"
    /\ result'.err = "none"
    /\ db'.orders[result'.id].Status = StatusCancelled
    /\ db.orders[result'.id].Status \notin {StatusCancelled, StatusRefunded}

\* C5: cancellation reversibility - such a call adds to each tracked item's
\* stock exactly the quantity of the order's lines for it, writes exactly one
\* return-on-cancel movement of +quantity per tracked line, leaves untracked
\* items and their ledger alone, and sets the status to cancelled.
C5_CancellationReversibility ==
    [][CancelStep =>
        LET id == result'.id IN
        /\ \A i \in DOMAIN db.items :
              IF db.items[i].TracksStock
              THEN db'.items[i].CurrentStock =
                      Some(db.items[i].CurrentStock.V + LineQuantity(db, id, i))
              ELSE db'.items[i] = db.items[i]
        /\ db'.movements =
              db.movements (+) ReturnMovements(db, id, GetOrderItemsByOrderID(db, id))
        /\ db'.orders = [db.orders EXCEPT ![id].Status = StatusCancelled]
        /\ db'.orderItems = db.orderItems
      ]_vars

\* an order with a tracked and an untracked line has just been cancelled
C5_Witness ==
    /\ result.op = "UpdateOrderStatus"
    /\ result.err = "none"
    /\ result.id \in DOMAIN db.orders
    /\ db.orders[result.id].Status = StatusCancelled
    /\ \E k1, k2 \in DOMAIN db.orderItems :
          /\ db.orderItems[k1].OrderID = result.id
          /\ db.orderItems[k2].OrderID = result.id
          /\ db.items[db.orderItems[k1].PricelistItemID].TracksStock
          /\ ~db.items[db.orderItems[k2].PricelistItemID].TracksStock
    /\ \E m \in DOMAIN db.movements :
          m.MovementType = MovementTypeReturnCancellation /\ m.Reason = <<"Order", result.id>>

----
\* ---------------------------------------------------------------------
\* Properties of bookings.
\* ---------------------------------------------------------------------

OccupyingStatuses == {BookingStatusConfirmed, BookingStatusCheckedIn}

\* half-open intervals [s1, e1) and [s2, e2) share an instant
Overlap(s1, e1, s2, e2) == s1 < e2 /\ e1 > s2

\* two occupying bookings of one table with overlapping intervals
DoubleBooked(bk, a, b) ==
    /\ a # b
    /\ bk[a].TableID = bk[b].TableID
    /\ bk[a].Status \in OccupyingStatuses
    /\ bk[b].Status \in OccupyingStatuses
    /\ Overlap(bk[a].StartTime, bk[a].EndTime, bk[b].StartTime, bk[b].EndTime)

\* C6: booking no-overlap invariant - no two bookings of the same table with
\* an occupying status have overlapping [start, end) intervals.
C6_NoOverlap ==
    \A a, b \in DOMAIN bookings : ~DoubleBooked(bookings, a, b)

\* C7: booking race window - the availability check and the insert of
\* CreateBooking are separate steps and the insert is unconditional: a request
\* whose check has passed persists its booking as checked, whatever other
\* requests have inserted in between.
C7_InsertAfterCheckUnconditional ==
    [][\A p \in Procs :
          (procs[p].pc = "insert" /\ procs'[p].pc = "done") =>
              /\ procs'[p].err = "none"
              /\ procs'[p].id \notin DOMAIN bookings
              /\ bookings' = bookings @@ (procs'[p].id :> procs[p].row)
      ]_vars

\* both concurrent requests have been answered with success and their two
\* confirmed bookings of the same table overlap
C7_Witness ==
    /\ procs[1].pc = "done" /\ procs[1].err = "none"
    /\ procs[2].pc = "done" /\ procs[2].err = "none"
    /\ bookings[procs[1].id].Status = BookingStatusConfirmed
    /\ bookings[procs[2].id].Status = BookingStatusConfirmed
    /\ DoubleBooked(bookings, procs[1].id, procs[2].id)

\* units of the one line of a request when its item tracks stock
TrackedUnits(req) ==
    IF db.items[req.OrderItems[1].PricelistItemID].TracksStock
    THEN req.OrderItems[1].Quantity ELSE 0

\* C8: two concurrent CreateOrder calls - both commit only if their
\* quantities together fit the stock available before them, and the stock
\* of a tracked item never becomes negative.
C8_ConcurrentOrdersFitStock ==
    /\ (\A p \in Procs : procs[p].pc = "done" /\ procs[p].err = "none")
          => TrackedUnits(procs[1].req) + TrackedUnits(procs[2].req) <= ghost.initialStock[1]
    /\ \A i \in DOMAIN db.items :
          db.items[i].TracksStock => db.items[i].CurrentStock.V >= 0

\* C9: CheckTableAvailability answers false exactly when a booking of the
\* same table, other than the excluded one, has an occupying status and an
\* interval with start < end of the query and end > start of the query; this
\* holds for every query, and for the answer of the last query made.
C9_AvailabilityIffOverlap ==
    LET blocked(t, s, e, ex) ==
            \E b \in DOMAIN bookings :
                /\ bookings[b].TableID = t
                /\ ~(ex.Valid /\ ex.V = b)
                /\ bookings[b].Status \in OccupyingStatuses
                /\ bookings[b].StartTime < e
                /\ bookings[b].EndTime > s
    IN  /\ \A t \in TableIDs, s \in TimePoints, e \in TimePoints,
              ex \in {Null} \cup {Some(b) : b \in BookingIDs} :
              s < e => (CheckTableAvailability(bookings, t, s, e, ex) = ~blocked(t, s, e, ex))
        /\ bresult.op = "CheckTableAvailability" =>
              (bresult.available = ~blocked(bresult.tableID, bresult.startTime,
                                            bresult.endTime, bresult.excludeBookingID))

\* a query answered "available" although an occupying booking of the table
\* ends exactly at its start and a cancelled booking of the table overlaps it
C9_Witness ==
    /\ bresult.op = "CheckTableAvailability"
    /\ bresult.available
    /\ \E a, b \in DOMAIN bookings :
          /\ bookings[a].TableID = bresult.tableID
          /\ bookings[a].Status \in OccupyingStatuses
          /\ bookings[a].EndTime = bresult.startTime
          /\ bookings[b].TableID = bresult.tableID
          /\ bookings[b].Status = BookingStatusCancelled
          /\ Overlap(bookings[b].StartTime, bookings[b].EndTime,
                     bresult.startTime, bresult.endTime)

\* C10: an UpdateBooking call that succeeds in moving a booking to another
\* table or another time window has passed the availability check on the
\* table and window it ends with, the booking itself excluded.
C10_UpdateRechecksAvailability ==
    [][(/\ bresult'.op = "UpdateBooking"
        /\ bresult'.err = "none"
        /\ \/ bookings'[bresult'.id].TableID # bookings[bresult'.id].TableID
           \/ bookings'[bresult'.id].StartTime # bookings[bresult'.id].StartTime
           \/ bookings'[bresult'.id].EndTime # bookings[bresult'.id].EndTime)
       => CheckTableAvailability(bookings, bookings'[bresult'.id].TableID,
                                 bookings'[bresult'.id].StartTime,
                                 bookings'[bresult'.id].EndTime, Some(bresult'.id))
      ]_vars

TerminalStatuses == {BookingStatusCancelled, BookingStatusCompleted}

\* C11: terminal booking states - a booking that is cancelled or completed
\* keeps its status through every later UpdateBooking, CancelBooking and
\* CompleteBooking call; an UpdateBooking call that succeeds was made on a
\* booking that was neither, and a rejected call changes no booking.
C11_TerminalStatesFinal ==
    [][/\ \A b \in DOMAIN bookings \cap DOMAIN bookings' :
             bookings[b].Status \in TerminalStatuses
                => bookings'[b].Status = bookings[b].Status
       /\ (bresult'.op = "UpdateBooking" /\ bresult'.err = "none")
             => bookings[bresult'.id].Status \notin TerminalStatuses
       /\ bresult'.err # "none" => bookings' = bookings
      ]_vars

\* UpdateBooking has just been rejected on a booking in a terminal state:
\* every booking is cancelled or completed, one of each exists
C11_Witness ==
    /\ bresult.op = "UpdateBooking"
    /\ bresult.err = "ErrBookingValidation"
    /\ \A b \in DOMAIN bookings : bookings[b].Status \in TerminalStatuses
    /\ \E b \in DOMAIN bookings : bookings[b].Status = BookingStatusCancelled
    /\ \E b \in DOMAIN bookings : bookings[b].Status = BookingStatusCompleted

\* the window of a request is well formed, ends after it starts, lasts
\* between 15 minutes and 12 hours, and starts no earlier than 5 minutes
\* before the clock
WindowAccepted(req, clock) ==
    /\ req.StartTime.ok /\ req.EndTime.ok
    /\ req.EndTime.t > req.StartTime.t
    /\ req.EndTime.t - req.StartTime.t >= 15
    /\ req.EndTime.t - req.StartTime.t <= 12 * 60
    /\ req.StartTime.t >= clock - 5

\* C12: CreateBooking fails with the invalid-booking-time error exactly when
\* the window of the request is not accepted (end after start, 15 minutes to
\* 12 hours both included, start no earlier than now minus 5 minutes), and
\* then persists nothing.
C12_CreateBookingWindow ==
    [][now' = now =>
        /\ (bresult'.err = "ErrInvalidBookingTime") = ~WindowAccepted(procs'[1], now)
        /\ ~WindowAccepted(procs'[1], now) => (bookings' = bookings /\ bseq' = bseq)
      ]_vars

\* a window of exactly 15 minutes starting exactly 5 minutes before the
\* clock and a window of exactly 12 hours touching it have both been booked
C12_Witness ==
    /\ bresult.op = "CreateBooking" /\ bresult.err = "none"
    /\ \E a, b \in DOMAIN bookings :
          /\ bookings[a].StartTime = now - 5
          /\ bookings[a].EndTime - bookings[a].StartTime = 15
          /\ bookings[b].EndTime - bookings[b].StartTime = 12 * 60

\* C13: final amount floor - the final amount of every order is
\* max(0, total amount - discount), the total amount itself when the order
\* has no discount, and never negative.
C13_FinalAmountFloor ==
    \A o \in DOMAIN db.orders :
        LET order == db.orders[o]
            discount == IF order.DiscountAmount.Valid THEN order.DiscountAmount.V ELSE 0
        IN  /\ order.FinalAmount =
                  (IF order.TotalAmount - discount > 0 THEN order.TotalAmount - discount ELSE 0)
            /\ ~order.DiscountAmount.Valid => order.FinalAmount = order.TotalAmount
            /\ order.FinalAmount >= 0

\* ids of the order items of an order
ItemsOf(d, orderID) == {k \in DOMAIN d.orderItems : d.orderItems[k].OrderID = orderID}

\* C14: for every committed order the total amount is the sum of the total
\* prices of its items and each item's total price is its quantity times its
\* unit price; the unit price of the items of a newly created order is the
\* catalog price at the time of the call.
C14_OrderTotals ==
    [][/\ \A o \in DOMAIN db'.orders :
             /\ db'.orders[o].TotalAmount =
                   SumOver([k \in ItemsOf(db', o) |-> db'.orderItems[k].TotalPrice],
                           ItemsOf(db', o))
             /\ \A k \in ItemsOf(db', o) :
                   db'.orderItems[k].TotalPrice =
                      db'.orderItems[k].Quantity * db'.orderItems[k].UnitPrice
       /\ (result'.op = "CreateOrder" /\ result'.err = "none") =>
             /\ ItemsOf(db', result'.id) # {}
             /\ \A k \in ItemsOf(db', result'.id) :
                   db'.orderItems[k].UnitPrice =
                      db.items[db'.orderItems[k].PricelistItemID].Price
      ]_vars

\* an order of two lines is committed and the catalog price of one of its
\* items has changed since
C14_Witness ==
    \E o \in DOMAIN db.orders :
        /\ Cardinality(ItemsOf(db, o)) = 2
        /\ \E k \in ItemsOf(db, o) :
              db.orderItems[k].UnitPrice # db.items[db.orderItems[k].PricelistItemID].Price

\* C15: every validation failure and every not-found failure of CreateOrder,
\* UpdateOrderStatus and DeleteOrder is detected before the call has issued
\* any statement that writes, and leaves the store unchanged.
C15_RejectBeforeMutation ==
    [][result'.err \in {"ErrValidation", "ErrInvalidOrderStatus",
                        "ErrPricelistItemNotFound", "ErrOrderNotFound"}
          => (~result'.wrote /\ db' = db)
      ]_vars

\* the stock adjustments and movement inserts of a transaction, in order
LedgerStatements(w) == SelectSeq(w, LAMBDA wr : wr.kind \in {"stock", "movement"})

\* every stock adjustment is followed at once by one movement of the same
\* item and the same signed delta, negative for a sale and positive for a
\* return, and there is no other movement
RECURSIVE Paired(_)
Paired(w) ==
    IF w = <<>> THEN TRUE
    ELSE IF Len(w) < 2 THEN FALSE
    ELSE /\ w[1].kind = "stock" /\ w[2].kind = "movement"
         /\ w[2].val.PricelistItemID = w[1].id
         /\ w[2].val.QuantityChanged = w[1].val
         /\ IF w[2].val.MovementType = MovementTypeSale THEN w[1].val < 0 ELSE w[1].val > 0
         /\ Paired(SubSeq(w, 3, Len(w)))

\* C16: ledger pairing - in every state, the transaction that any CreateOrder,
\* UpdateOrderStatus or DeleteOrder call commits pairs each stock adjustment
\* with exactly one movement of the same item and signed delta, and writes no
\* movement without its adjustment.
C16_LedgerPairing ==
    /\ \A req \in CreateOrderRequests :
          LET st == CreateOrderTx(db, seqs, req, 0)
          IN st.err = "none" => Paired(LedgerStatements(st.w))
    /\ \A orderID \in OrderIDs, req \in UpdateOrderStatusRequests :
          LET st == UpdateOrderStatusTx(db, seqs, orderID, req, 0)
          IN st.err = "none" => Paired(LedgerStatements(st.w))
    /\ \A orderID \in OrderIDs :
          LET st == DeleteOrderTx(db, seqs, orderID, 0)
          IN st.err = "none" => Paired(LedgerStatements(st.w))

\* transactions of all three operations have committed stock adjustments:
\* the ledger holds a sale, a return on cancellation and a return on deletion
C16_Witness ==
    /\ result.op = "DeleteOrder" /\ result.err = "none"
    /\ \A t \in {MovementTypeSale, MovementTypeReturnCancellation, MovementTypeReturnDeletion} :
          \E m \in DOMAIN db.movements : m.MovementType = t

\* C17: the movement ledger is append-only - every step keeps each movement
\* of the committed ledger, with the same item, delta, kind and actor (the
\* ledger after the step contains the ledger before it, as a bag of rows).
C17_LedgerAppendOnly ==
    [][db.movements \sqsubseteq db'.movements]_vars

\* an order has been deleted and the sale movement it caused is still there
C17_Witness ==
    /\ result.op = "DeleteOrder" /\ result.err = "none"
    /\ DOMAIN db.orders = {}
    /\ \E m \in DOMAIN db.movements : m.MovementType = MovementTypeSale

\* the return-on-delete movements of the tracked lines ks of an order
RECURSIVE DeletionMovements(_, _, _)
DeletionMovements(d, orderID, ks) ==
    IF ks = <<>> THEN EmptyBag
    ELSE LET item == d.orderItems[Head(ks)]
             rest == DeletionMovements(d, orderID, Tail(ks))
         IN IF d.items[item.PricelistItemID].TracksStock
            THEN rest (+) SetToBag({[PricelistItemID |-> item.PricelistItemID,
                                     StaffID |-> d.orders[orderID].StaffID,
                                     MovementType |-> MovementTypeReturnDeletion,
                                     QuantityChanged |-> item.Quantity,
                                     Reason |-> <<"Order", orderID>>]})
            ELSE rest

\* C18: a successful DeleteOrder of an order that is neither cancelled nor
\* refunded adds each tracked line's quantity to the item's stock, writes
\* exactly one return-on-delete movement per tracked line, and removes the
\* order's items and header (no order item references the order afterwards),
\* leaving every other row alone; a failed DeleteOrder commits nothing.
C18_DeleteOrderReturnsAndRemoves ==
    [][result'.op = "DeleteOrder" =>
        IF result'.err # "none" THEN db' = db
        ELSE LET id == result'.id IN
             (id \in DOMAIN db.orders
                 /\ db.orders[id].Status \notin {StatusCancelled, StatusRefunded}) =>
               /\ \A i \in DOMAIN db.items :
                     IF db.items[i].TracksStock
                     THEN db'.items[i].CurrentStock =
                             Some(db.items[i].CurrentStock.V + LineQuantity(db, id, i))
                     ELSE db'.items[i] = db.items[i]
               /\ db'.movements =
                     db.movements (+) DeletionMovements(db, id, GetOrderItemsByOrderID(db, id))
               /\ id \notin DOMAIN db'.orders
               /\ \A k \in DOMAIN db'.orderItems : db'.orderItems[k].OrderID # id
               /\ \A o \in DOMAIN db.orders \ {id} :
                     o \in DOMAIN db'.orders /\ db'.orders[o] = db.orders[o]
               /\ \A k \in DOMAIN db.orderItems :
                     db.orderItems[k].OrderID # id =>
                        (k \in DOMAIN db'.orderItems /\ db'.orderItems[k] = db.orderItems[k])
      ]_vars

\* an order of two lines, one of them tracked, has just been deleted with its
\* return recorded, and nothing of it is left
C18_Witness ==
    /\ result.op = "DeleteOrder" /\ result.err = "none"
    /\ seqs.orderItem >= 3
    /\ db.orders = <<>> /\ db.orderItems = <<>>
    /\ \E m \in DOMAIN db.movements :
          m.MovementType = MovementTypeReturnDeletion /\ m.Reason = <<"Order", result.id>>

\* the order status values the service declares
KnownOrderStatuses ==
    {StatusPending, StatusCompleted, StatusCancelled, StatusPreparing,
     StatusReady, StatusServed, StatusPaid, StatusRefunded}

\* requested statuses: every declared value, and strings that are none of them
StatusInputs == KnownOrderStatuses \cup {"unknown", "", "Pending", "canceled"}

\* the store an UpdateOrderStatus call leaves behind: its statements
\* committed if it succeeds, rolled back if it fails
StoreAfter(d, st) == IF st.err = "none" THEN Commit(d, st.w) ELSE Rollback(d, st.w)

\* C19: in every state, UpdateOrderStatus of an existing order (without a
\* storage failure) succeeds iff the requested status is one of the known
\* values, whatever the order's current status; a request with an unknown
\* status, for an existing or a missing order, fails with the invalid-status
\* error, has issued no statement, and leaves the orders' statuses, the stock
\* and the movement ledger (the whole store) unchanged.
C19_StatusAcceptedIffKnown ==
    /\ \A o \in DOMAIN db.orders, s \in StatusInputs :
          LET st == UpdateOrderStatusTx(db, seqs, o, [Status |-> s], 0)
          IN  /\ (st.err = "none") = (s \in KnownOrderStatuses)
              /\ st.err = "none" => StoreAfter(db, st).orders[o].Status = s
    /\ \A o \in OrderIDs, s \in StatusInputs \ KnownOrderStatuses :
          LET st == UpdateOrderStatusTx(db, seqs, o, [Status |-> s], 0)
          IN  /\ st.err = "ErrInvalidOrderStatus"
              /\ st.w = <<>>
              /\ StoreAfter(db, st) = db

\* an order that was moved to refunded has just had an unknown status refused
C19_Witness ==
    /\ result.op = "UpdateOrderStatus" /\ result.err = "ErrInvalidOrderStatus"
    /\ \E o \in DOMAIN db.orders : db.orders[o].Status = StatusRefunded
    /\ db.movements # EmptyBag

\* C20: price snapshot - no step changes the unit price or total price of an
\* existing order item, nor the totalAmount or finalAmount of an existing
\* order: not a change of the item's catalog price, and not a later status
\* update of the order.
C20_PriceSnapshot ==
    [][/\ \A k \in DOMAIN db.orderItems \cap DOMAIN db'.orderItems :
             /\ db'.orderItems[k].UnitPrice = db.orderItems[k].UnitPrice
             /\ db'.orderItems[k].TotalPrice = db.orderItems[k].TotalPrice
       /\ \A o \in DOMAIN db.orders \cap DOMAIN db'.orders :
             /\ db'.orders[o].TotalAmount = db.orders[o].TotalAmount
             /\ db'.orders[o].FinalAmount = db.orders[o].FinalAmount
       /\ result'.op \in {"UpdateItem", "UpdateOrderStatus"} =>
             /\ DOMAIN db'.orderItems = DOMAIN db.orderItems
             /\ DOMAIN db'.orders = DOMAIN db.orders
      ]_vars

\* the price of an ordered item was changed after the order was created, and
\* the order's status has been updated since
C20_Witness ==
    /\ result.op = "UpdateOrderStatus" /\ result.err = "none"
    /\ result.id \in DOMAIN db.orders
    /\ db.orders[result.id].Status = StatusCompleted
    /\ \E k \in ItemsOf(db, result.id) :
          db.orderItems[k].UnitPrice # db.items[db.orderItems[k].PricelistItemID].Price

----
\* ---------------------------------------------------------------------
\* List queries.  A filter on the status is a string, "" when the filter
\* is absent (a nil pointer and an empty string are treated alike by both
\* repositories); client, staff and date filters are left out.
\* ---------------------------------------------------------------------

Reverse(s) == [i \in 1..Len(s) |-> s[Len(s) + 1 - i]]

\* LIMIT / OFFSET as both repositories append them: no LIMIT unless the page
\* size is positive, no OFFSET unless the page is positive as well
LimitOffset(all, filters) ==
    IF filters.PageSize > 0
    THEN LET offset == IF filters.Page > 0 THEN (filters.Page - 1) * filters.PageSize ELSE 0
             last == IF offset + filters.PageSize < Len(all)
                     THEN offset + filters.PageSize ELSE Len(all)
         IN SubSeq(all, offset + 1, last)
    ELSE all

\* COUNT(*) OVER() is a column of the rows returned: it is scanned from each
\* row, and stays 0 when the page has no row
ScannedTotalCount(rows, all) == IF rows = <<>> THEN 0 ELSE Len(all)

\* orderRepository.GetOrders: rows newest first (order ids grow with order_time)
GetOrdersQuery(d, filters) ==
    LET matching == {o \in DOMAIN d.orders :
                        filters.Status # "" => d.orders[o].Status = filters.Status}
        all == Reverse(SortedSeq(matching))
        rows == LimitOffset(all, filters)
    IN [rows |-> rows, totalCount |-> ScannedTotalCount(rows, all)]

\* bookingRepository.GetBookings: rows by start time, latest first (rows of
\* equal start time are given by id, latest first)
RECURSIVE ByStartTimeDesc(_, _)
ByStartTimeDesc(bk, S) ==
    IF S = {} THEN <<>>
    ELSE LET m == CHOOSE x \in S : \A y \in S :
                     \/ bk[x].StartTime > bk[y].StartTime
                     \/ (bk[x].StartTime = bk[y].StartTime /\ x >= y)
         IN <<m>> \o ByStartTimeDesc(bk, S \ {m})

GetBookingsQuery(bk, filters) ==
    LET matching == {b \in DOMAIN bk :
                        /\ filters.TableID.Valid => bk[b].TableID = filters.TableID.V
                        /\ filters.Status # "" => bk[b].Status = filters.Status}
        all == ByStartTimeDesc(bk, matching)
        rows == LimitOffset(all, filters)
    IN [rows |-> rows, totalCount |-> ScannedTotalCount(rows, all)]

\* orderService.GetOrders: the filters go to the repository as they are
GetOrders(filters) ==
    /\ LET r == GetOrdersQuery(db, filters) IN
          result' = [op |-> "GetOrders", err |-> "none", id |-> 0, wrote |-> FALSE,
                     filters |-> filters, rows |-> r.rows, totalCount |-> r.totalCount]
    /\ UNCHANGED <<db, seqs, ghost, bookingVars, procs>>

\* bookingService.GetBookings: page and page size default to 1 and 10
GetBookings(filters) ==
    /\ LET f == [filters EXCEPT !.Page = IF @ <= 0 THEN 1 ELSE @,
                                !.PageSize = IF @ <= 0 THEN 10 ELSE @]
           r == GetBookingsQuery(bookings, f) IN
          bresult' = [op |-> "GetBookings", err |-> "none", id |-> 0,
                      filters |-> filters, rows |-> r.rows, totalCount |-> r.totalCount]
    /\ UNCHANGED <<bookings, bseq, now, orderVars, procs>>

OrderFilters == [Status : {"", StatusCancelled}, Page : {1, 2}, PageSize : {0, 1}]
BookingFilters ==
    [TableID : {Null, Some(1)}, Status : {""}, Page : {0, 1, 3}, PageSize : {0, 1}]
ListOrderRequests ==
    [StaffID : {1}, Status : {StatusPending}, DiscountAmount : {Null},
     OrderItems : {<<Line(2, 1)>>}]
ListBookingRows ==
    {[TableID |-> t, StartTime |-> 10, EndTime |-> 25, Status |-> st] :
        t \in TableIDs, st \in {BookingStatusConfirmed, BookingStatusCancelled}}

NextList ==
    \/ \E req \in ListOrderRequests : CreateOrder(req, 0)
    \/ \E orderID \in OrderIDs, req \in [Status : {StatusPending, StatusCancelled}] :
          UpdateOrderStatus(orderID, req, 0)
    \/ \E filters \in OrderFilters : GetOrders(filters)
    \/ \E row \in ListBookingRows : RepoCreateBooking(row)
    \/ \E filters \in BookingFilters : GetBookings(filters)

SpecList == Init /\ [][NextList]_vars

\* the number of rows matching the filters of a list request
MatchingOrders(d, filters) ==
    Cardinality({o \in DOMAIN d.orders :
                    filters.Status # "" => d.orders[o].Status = filters.Status})
MatchingBookings(bk, filters) ==
    Cardinality({b \in DOMAIN bk :
                    /\ filters.TableID.Valid => bk[b].TableID = filters.TableID.V
                    /\ filters.Status # "" => bk[b].Status = filters.Status})

\* C21: for every 1-based page and page size, the total count returned by a
\* list of orders or of bookings is the number of rows matching the filters,
\* whichever page is requested, a page beyond the last one included.
C21_TotalCountIndependentOfPage ==
    /\ (result.op = "GetOrders" /\ result.filters.Page >= 1 /\ result.filters.PageSize >= 1)
          => result.totalCount = MatchingOrders(db, result.filters)
    /\ (bresult.op = "GetBookings" /\ bresult.filters.Page >= 1
            /\ bresult.filters.PageSize >= 1)
          => bresult.totalCount = MatchingBookings(bookings, bresult.filters)

\* C22: after any sequence of CreateItem, UpdateItem and order operations
\* served one at a time, an item's current stock is present (non-null) iff
\* the item tracks stock.
C22_StockPresentIffTracked ==
    \A i \in DOMAIN db.items : db.items[i].CurrentStock.Valid = db.items[i].TracksStock

\* item 1 was sold from and then switched to untracked, and a second item
\* was created tracked
C22_Witness ==
    /\ ~db.items[1].TracksStock
    /\ \E m \in DOMAIN db.movements :
          m.PricelistItemID = 1 /\ m.MovementType = MovementTypeSale
    /\ 2 \in DOMAIN db.items /\ db.items[2].TracksStock

\* C23: booking state machine - every change of a booking's status (made by
\* UpdateBooking, CancelBooking or CompleteBooking, the only operations that
\* write it) goes from pending or confirmed to cancelled, completed or
\* no-show.
C23_BookingStateMachine ==
    [][\A b \in DOMAIN bookings \cap DOMAIN bookings' :
          bookings'[b].Status # bookings[b].Status =>
             /\ bookings[b].Status \in {BookingStatusPending, BookingStatusConfirmed}
             /\ bookings'[b].Status \in {BookingStatusCancelled, BookingStatusCompleted,
                                         BookingStatusNoShow}
      ]_vars

----
\* ---------------------------------------------------------------------
\* Concurrent cancellation and deletion of an order.  GetOrderByID, the
\* order items and each item's tracks_stock are read through r.db, outside
\* the transaction and without a lock; the statements run on the
\* transaction and wait while another open transaction holds their rows.
\* ---------------------------------------------------------------------

\* UpdateOrderStatus lines 283-301 / DeleteOrder lines 345-363: Begin and the
\* reads through r.db
ReturnRead(p, op, orderID) ==
    /\ procs[p].pc = "idle"
    /\ procs' = [procs EXCEPT ![p] = [pc |-> "read", op |-> op, orderID |-> orderID,
                                      seen |-> db]]
    /\ UNCHANGED <<bookingVars, orderVars>>

\* UpdateOrderStatus lines 302-335 / DeleteOrder lines 364-401: the statements
\* of the transaction, decided by the values read; the UPDATE or DELETE of the
\* order row finds no row when the order has been deleted meanwhile
ReturnWrite(p) ==
    /\ procs[p].pc = "read"
    /\ \A q \in Procs \ {p} : procs[q].pc # "written"
    /\ LET orderID == procs[p].orderID
           st0 == IF procs[p].op = "UpdateOrderStatus"
                  THEN UpdateOrderStatusTx(procs[p].seen, seqs, orderID,
                                           [Status |-> StatusCancelled], 0)
                  ELSE DeleteOrderTx(procs[p].seen, seqs, orderID, 0)
           st == IF st0.err = "none" /\ orderID \notin DOMAIN db.orders
                 THEN Fail(st0, "ErrOrderNotFound") ELSE st0
       IN IF st.err = "none"
          THEN /\ procs' = [procs EXCEPT ![p] =
                              [pc |-> "written", op |-> procs[p].op, st |-> st]]
               /\ UNCHANGED <<db, seqs, result, ghost>>
          ELSE /\ procs' = [procs EXCEPT ![p] =
                              [pc |-> "done", op |-> procs[p].op, err |-> st.err]]
               /\ result' = [op |-> procs[p].op, err |-> st.err, id |-> 0,
                             wrote |-> st.w # <<>>]
               /\ UNCHANGED <<db, seqs, ghost>>
    /\ UNCHANGED bookingVars

\* UpdateOrderStatus line 337 / DeleteOrder line 403: tx.Commit() and the reply
ReturnCommit(p) ==
    /\ procs[p].pc = "written"
    /\ LET st == procs[p].st IN
        /\ db' = Commit(db, st.w)
        /\ ghost' = Account(ghost, db, st)
        /\ result' = [op |-> procs[p].op, err |-> "none", id |-> st.id, wrote |-> TRUE]
    /\ procs' = [procs EXCEPT ![p] = [pc |-> "done", op |-> procs[p].op, err |-> "none"]]
    /\ UNCHANGED <<seqs, bookingVars>>

NextReturnRace ==
    \/ \E req \in RaceOrderRequests : CreateOrder(req, 0)
    \/ \E p \in Procs, op \in {"UpdateOrderStatus", "DeleteOrder"}, orderID \in OrderIDs :
          ReturnRead(p, op, orderID)
    \/ \E p \in Procs : ReturnWrite(p)
    \/ \E p \in Procs : ReturnCommit(p)

SpecReturnRace == InitRace /\ [][NextReturnRace]_vars

\* C24: under any interleaving of two concurrent requests on the same order,
\* each a cancellation or a deletion, the units returned to an item's stock
\* never exceed the units sold of it (each line is returned at most once),
\* and no more return movements than sale movements are committed for it.
C24_ConcurrentReturnsAtMostOnce ==
    \A i \in DOMAIN db.items :
        LET rets == {m \in DOMAIN db.movements :
                        m.PricelistItemID = i /\ m.MovementType # MovementTypeSale}
            sales == {m \in DOMAIN db.movements :
                        m.PricelistItemID = i /\ m.MovementType = MovementTypeSale}
        IN /\ SumOver([m \in rets |-> db.movements[m]], rets)
                 <= SumOver([m \in sales |-> db.movements[m]], sales)
           /\ SumOver([m \in rets |-> db.movements[m] * m.QuantityChanged], rets)
                 <= SumOver([m \in sales |-> db.movements[m] * (0 - m.QuantityChanged)], sales)
           /\ db.items[i].TracksStock => db.items[i].CurrentStock.V <= ghost.initialStock[i]

\* C25: whenever a successful DeleteOrder skips the stock return because the
\* order is cancelled or refunded, every unit deducted for each of the
\* order's lines at creation has already been credited back.
C25_SkippedReturnAlreadyCredited ==
    [][(/\ result'.op = "DeleteOrder" /\ result'.err = "none"
        /\ result'.id \in DOMAIN db.orders
        /\ db.orders[result'.id].Status \in {StatusCancelled, StatusRefunded})
          => \A k \in ItemsOf(db, result'.id) : ghost.credited[k] >= ghost.deducted[k]
      ]_vars

\* C26: the stock returned by one cancellation or deletion matches what the
\* order deducted - in every step, the quantity credited for an order line
\* by that step is at most the quantity the line deducted at creation, so a
\* line that deducted nothing is credited nothing, also when the item's
\* tracksStock flag was changed in between.
C26_CreditWithinDeduction ==
    [][\A k \in DOMAIN ghost.credited :
          ghost'.credited[k] - ghost.credited[k] <= ghost.deducted[k]
      ]_vars

----
\* ---------------------------------------------------------------------
\* UpdateBooking concurrent with CancelBooking / CompleteBooking.  No
\* booking call opens a transaction: UpdateBooking reads the row, decides,
\* and later writes the whole row back by id.
\* ---------------------------------------------------------------------

\* UpdateBooking, lines 206-259: GetBookingByID, the terminal-status test,
\* the validation and the availability query, on the row as read
UpdateRead(p, bookingID, req) ==
    /\ procs[p].pc = "idle"
    /\ LET r == UpdateBookingRow(bookings, bookingID, req, now, TRUE) IN
        procs' = [procs EXCEPT ![p] =
                    IF r.err = "none"
                    THEN [pc |-> "update", id |-> bookingID, row |-> r.row]
                    ELSE [pc |-> "done", err |-> r.err, id |-> 0]]
    /\ UNCHANGED <<bookingVars, orderVars>>

\* UpdateBooking, lines 262-269: UPDATE bookings SET ..., status = $7, ...
\* WHERE id = $11 with the row built from the earlier read
UpdateWrite(p) ==
    /\ procs[p].pc = "update"
    /\ LET id == procs[p].id
           err == IF id \in DOMAIN bookings THEN "none" ELSE "ErrBookingNotFound" IN
        /\ bookings' = IF err = "none" THEN [bookings EXCEPT ![id] = procs[p].row]
                       ELSE bookings
        /\ bresult' = [op |-> "UpdateBooking", err |-> err,
                       id |-> IF err = "none" THEN id ELSE 0]
        /\ procs' = [procs EXCEPT ![p] = [pc |-> "done", err |-> err, id |-> id]]
    /\ UNCHANGED <<bseq, now, orderVars>>

RaceUpdateRequests ==
    {BookingUpdate(Null, Null, Some(TimeText(40)), Null),
     BookingUpdate(Some(2), Null, Null, Null),
     BookingUpdate(Null, Null, Null, Some(BookingStatusPending))}

\* CreateBooking, CancelBooking and CompleteBooking are taken in one step;
\* each goroutine serves one UpdateBooking request.
NextUpdateRace ==
    \/ \E req \in RaceBookingRequests : CreateBooking(req)
    \/ \E p \in Procs, bookingID \in BookingIDs, req \in RaceUpdateRequests :
          UpdateRead(p, bookingID, req)
    \/ \E p \in Procs : UpdateWrite(p)
    \/ \E bookingID \in BookingIDs : CancelBooking(bookingID)
    \/ \E bookingID \in BookingIDs : CompleteBooking(bookingID)

SpecUpdateRace == InitRace /\ [][NextUpdateRace]_vars

\* C28: under any interleaving of UpdateBooking with a concurrent
\* CancelBooking or CompleteBooking, a booking committed as cancelled or
\* completed keeps that status in every later step.
C28_TerminalNotWrittenBack ==
    [][\A b \in DOMAIN bookings :
          bookings[b].Status \in TerminalStatuses =>
             (b \in DOMAIN bookings' /\ bookings'[b].Status = bookings[b].Status)
      ]_vars

----
\* ---------------------------------------------------------------------
\* UpdateItem concurrent with order operations.  UpdateItem opens no
\* transaction: it reads the item row, edits the copy, and writes every
\* column of the row back, current_stock included.
\* ---------------------------------------------------------------------

\* UpdateItem, lines 265-330: GetItemByID and the edits of the copy
ItemRead(p, itemID, req) ==
    /\ procs[p].pc = "idle"
    /\ LET r == IF itemID \in DOMAIN db.items
                THEN UpdateItemRow(db.items[itemID], req)
                ELSE [err |-> "ErrItemNotFound", row |-> Null] IN
        procs' = [procs EXCEPT ![p] =
                    IF r.err = "none"
                    THEN [pc |-> "itemWrite", id |-> itemID, row |-> r.row]
                    ELSE [pc |-> "done", err |-> r.err, id |-> 0]]
    /\ UNCHANGED <<bookingVars, orderVars>>

\* UpdateItem, line 332: UPDATE pricelist_items SET ..., current_stock = $9
\* ... WHERE id = $12 with the copy
ItemWrite(p) ==
    /\ procs[p].pc = "itemWrite"
    /\ db' = [db EXCEPT !.items[procs[p].id] = procs[p].row]
    /\ result' = [op |-> "UpdateItem", err |-> "none", id |-> procs[p].id, wrote |-> TRUE]
    /\ procs' = [procs EXCEPT ![p] = [pc |-> "done", err |-> "none", id |-> procs[p].id]]
    /\ UNCHANGED <<seqs, ghost, bookingVars>>

\* The order operations are taken in one step each.
NextItemRace ==
    \/ \E p \in Procs, itemID \in {1, 3}, req \in PriceUpdateRequests : ItemRead(p, itemID, req)
    \/ \E p \in Procs : ItemWrite(p)
    \/ \E req \in RaceOrderRequests : CreateOrder(req, 0)
    \/ \E orderID \in OrderIDs : UpdateOrderStatus(orderID, [Status |-> StatusCancelled], 0)
    \/ \E orderID \in OrderIDs : DeleteOrder(orderID, 0)

SpecItemRace == InitRace /\ [][NextItemRace]_vars

\* C29: an UpdateItem request that supplies no stock value leaves the item's
\* current stock as the committed order operations produced it, under any
\* interleaving with order operations on the item: the step that writes the
\* item keeps the stock of the committed row.
C29_PriceUpdateKeepsStock ==
    [][(result'.op = "UpdateItem" /\ result'.err = "none") =>
          db'.items[result'.id].CurrentStock = db.items[result'.id].CurrentStock
      ]_vars

----
\* ---------------------------------------------------------------------
\* UpdateBooking against a running clock.  procs keeps the request served
\* last and the booking it named.
\* ---------------------------------------------------------------------

UpdateBookingAt(bookingID, req, sameTime) ==
    /\ LET r == UpdateBookingRow(bookings, bookingID, req, now, sameTime) IN
        BookingReply("UpdateBooking", r, bookingID,
                     [bookings EXCEPT ![bookingID] = r.row])
    /\ procs' = <<req, bookingID>>
    /\ UNCHANGED <<bseq, now, orderVars>>

UpdateTimeRequests ==
    {BookingUpdate(Null, Null, Some(TimeText(y)), Null) : y \in {19, 30, 730}}
    \cup {BookingUpdate(Null, Some(TimeText(x)), Null, Null) : x \in {4, 5, 6}}

NextBookingUpdateTime ==
    \/ Tick
    \/ \E req \in WindowRequests : CreateBookingAt(req)
    \/ \E bookingID \in BookingIDs, req \in UpdateTimeRequests, sameTime \in BOOLEAN :
          UpdateBookingAt(bookingID, req, sameTime)

SpecBookingUpdateTime == Init /\ [][NextBookingUpdateTime]_vars

\* C30: an UpdateBooking of a booking that is not cancelled or completed
\* (a) is accepted, and sets the end time, when it changes only the end time
\* of a booking whose start is earlier than now minus 5 minutes, the new
\* duration is between 15 minutes and 12 hours and the table is available;
\* (b) is rejected, leaving the bookings unchanged, when it moves the start
\* to a different instant earlier than now minus 5 minutes.
C30_UpdateBookingPastStart ==
    [][(/\ now' = now /\ Len(procs') = 2
        /\ procs'[2] \in DOMAIN bookings
        /\ bookings[procs'[2]].Status \notin TerminalStatuses) =>
          LET req == procs'[1]
              id == procs'[2]
              b == bookings[id]
          IN /\ (/\ ~req.StartTime.Valid /\ req.EndTime.Valid
                 /\ b.StartTime < now - 5
                 /\ req.EndTime.V.t - b.StartTime >= 15
                 /\ req.EndTime.V.t - b.StartTime <= 12 * 60
                 /\ \A o \in DOMAIN bookings \ {id} :
                       ~(/\ bookings[o].TableID = b.TableID
                         /\ bookings[o].Status \in OccupyingStatuses
                         /\ bookings[o].StartTime < req.EndTime.V.t
                         /\ bookings[o].EndTime > b.StartTime))
                   => (bresult'.err = "none" /\ bookings'[id].EndTime = req.EndTime.V.t)
             /\ (/\ req.StartTime.Valid
                 /\ req.StartTime.V.t # b.StartTime
                 /\ req.StartTime.V.t < now - 5)
                   => (bresult'.err # "none" /\ bookings' = bookings)
      ]_vars

====
